---- MODULE Spec2Model ----
(***************************************************************************)
(* Model of the RAG core of the QA agent (src/app/rag.py) and of the two   *)
(* endpoints of src/main.py that guard it.                                 *)
(*                                                                         *)
(* One asyncio event loop runs the request coroutines: a coroutine runs    *)
(* atomically from one await to the next, so every action below is one     *)
(* such segment.  Work handed to loop.run_in_executor runs on a pool       *)
(* thread and is an action of its own, interleaved freely.                 *)
(***************************************************************************)
EXTENDS Integers, Sequences, FiniteSets, TLC

\* ------------------------------------------------------------- bounds
NProcs == 2        \* request slots (coroutines in flight at once)
MaxBuilds == 2     \* load_and_ingest_documents calls per run
MaxReads == 2      \* retrieval / generation / readiness calls per run
MaxRestarts == 1   \* process restarts per run
MaxDocs == 1       \* support documents per build request
MaxCases == 2      \* test case objects in a reply's array
MaxProse == 2      \* tokens of prose before, and after, the array
MaxRaw == 4        \* tokens of an arbitrary reply
MaxRecords == 3    \* records in a reply's array when some are no test cases
MaxChars == 4      \* symbols of a Grounded_In string
MaxItems == 2      \* items of a Grounded_In list
MaxSources == 2    \* chunks a retrieval returned
MaxBatch == 3      \* support documents of a build whose content is followed
LongChunks == 10   \* chunks the splitter makes of a long document

Procs == 1..NProcs

None == 0

\* -------------------------------------------------- persisted artifacts
\* The files of FAISS_PERSIST_DIR, in the order save_local writes them.
ArtifactFiles == <<"faiss_index.pkl", "faiss_docstore.pkl", "faiss_index_to_id.pkl">>

Artifacts == 1..Len(ArtifactFiles)

\* An in-memory store that was deserialized from artifacts of different builds.
Corrupt == -1

\* FAISS.load_local raised.
LoadFailed == -2

\* os.path.exists(FAISS_PERSIST_DIR)
PersistDirExists(dir) == dir

\* The build whose index the directory holds, None when it holds no complete
\* index of a single build.
PersistedIndex(dir, files) ==
    IF dir /\ files[1] # None /\ \A a \in Artifacts : files[a] = files[1]
    THEN files[1] ELSE None

\* FAISS.load_local: what deserializing the directory yields.  A missing
\* artifact raises; artifacts of different builds either raise or give a
\* store whose parts do not belong together.
LoadLocal(dir, files) ==
    IF ~dir \/ \E a \in Artifacts : files[a] = None THEN {LoadFailed}
    ELSE IF \A a \in Artifacts : files[a] = files[1] THEN {files[1]}
    ELSE {LoadFailed, Corrupt}

\* vector_store.save_local stopped after `written` artifacts: the files are
\* overwritten in place, one after the other.
SaveLocal(files, index, written) ==
    [a \in Artifacts |-> IF a <= written THEN index ELSE files[a]]

\* ------------------------------------------------------- HTTP details
DNoValidDocuments == "No valid documents were provided."
DNoContent == "No documents with content remain after processing."
DFileError == "Error processing file"
DHtmlError == "Error processing HTML file"
DBuildError == "Error building the knowledge base"
DNotBuilt == "Knowledge base is not built yet."
DLoadError == "Error loading knowledge base."
DRetrieveError == "Error retrieving context from knowledge base."
DApiNotBuilt == "Knowledge base is not built yet. Please upload documents and build it first."
DUnsupportedDoc == "Unsupported document type"
DUnsupportedHtml == "Unsupported HTML type"
DInvalidJsonExtraction == "LLM returned invalid JSON for test cases (extraction failed)."
DInvalidJsonNoArray == "LLM returned invalid JSON for test cases (no array found)."
DInvalidJson == "LLM returned invalid JSON for test cases."
DBadTestCaseData == "LLM returned incorrectly formatted test case data."
DTargetNotFound == "Target HTML file content not found in knowledge base."
DScriptError == "Error generating Selenium script."

\* --------------------------------------------------------- uploads
\* body: what the uploaded bytes are.
SupportFiles ==
    { [filename |-> "specs.md",   body |-> "text"],
      [filename |-> "notes.txt",  body |-> "blank"],
      [filename |-> "api.json",   body |-> "malformed"],
      [filename |-> "guide.docx", body |-> "text"] }

HtmlFiles ==
    { [filename |-> "checkout.html", body |-> "markup"],
      [filename |-> "checkout.html", body |-> "tagsonly"],
      [filename |-> "checkout.html", body |-> "empty"] }

NoFile == [filename |-> "", body |-> "none"]

RECURSIVE SeqsUpTo(_, _)
SeqsUpTo(S, n) ==
    IF n = 0 THEN {<<>>}
    ELSE LET shorter == SeqsUpTo(S, n - 1)
         IN shorter \cup {Append(s, x) : s \in {t \in shorter : Len(t) = n - 1}, x \in S}

\* Path(filename).suffix.lower()
Suffix(filename) ==
    CASE filename = "specs.md" -> ".md"
      [] filename = "notes.txt" -> ".txt"
      [] filename = "api.json" -> ".json"
      [] filename = "guide.docx" -> ".docx"
      [] filename = "checkout.html" -> ".html"
      [] filename = "manual.pdf" -> ".pdf"
      [] filename = "handbook.md" -> ".md"
      [] filename = "index.html" -> ".html"
      [] OTHER -> ""

\* _parse_document: `content` when it returns.  It is "" when the type is
\* not supported and when reading or decoding raised (the exception is caught
\* and logged); for a PDF one of whose later pages raises, it is the text of
\* the pages before ("part"), added to `content` page by page.
ParseDocument(file) ==
    CASE Suffix(file.filename) \in {".md", ".txt", ".json", ".html"} ->
            IF file.body = "malformed" THEN "" ELSE file.body
      [] Suffix(file.filename) = ".pdf" ->
            IF file.body = "malformed" THEN ""
            ELSE IF file.body = "truncated" THEN "part"
            ELSE file.body
      [] OTHER -> ""

\* bool(content_str)
Truthy(content) == content # ""

\* page_content.strip() is non-empty
NonBlank(content) == content \notin {"", "blank"}

SupportDoc(file) ==
    [content |-> ParseDocument(file), source |-> file.filename, type |-> "none"]

\* The two documents of the target HTML file: the raw markup and its text.
HtmlDocs(html) ==
    << [content |-> IF html.body = "empty" THEN "" ELSE "markup",
        source |-> html.filename, type |-> "html_full"],
       [content |-> IF html.body = "markup" THEN "text" ELSE "",
        source |-> html.filename, type |-> "html_text"] >>

\* The chunks of one document: a long one is cut into LongChunks chunks, any
\* other is short enough for one; every chunk has the document's metadata.
SplitText(doc) ==
    IF doc.content = "long"
    THEN [i \in 1..LongChunks |-> [doc EXCEPT !.content = "text"]]
    ELSE <<doc>>

RECURSIVE SplitDocuments(_)
\* text_splitter.split_documents
SplitDocuments(documents) ==
    IF documents = <<>> THEN <<>>
    ELSE SplitText(Head(documents)) \o SplitDocuments(Tail(documents))

\* The chunks when none is dropped.
FilteredDocsUnfiltered(split_docs) == split_docs

\* [doc for doc in split_docs if doc.page_content.strip()]

FilteredDocs(split_docs) == SelectSeq(split_docs, LAMBDA d : NonBlank(d.content))

\* ------------------------------------------------- the model's reply
\* A reply is a sequence of tokens.  "[", "]", "," and the closing "}" are
\* themselves.  "{tc:" opens the object {"test_cases": v} and "{g:" a test
\* case object whose last key is "Grounded_In": v, the value v following as
\* tokens.  tc1 and tc2 are whole test case objects whose Grounded_In is a
\* string, bad a whole object that is no TestCase.  "p" is a word of prose
\* and "~~~" a code fence line.
ObjectTokens == {"tc1", "tc2", "bad"}

ObjectOpeners == {"{tc:", "{g:"}

Tokens == ObjectTokens \cup ObjectOpeners \cup {"[", "]", ",", "}", "p", "~~~"}

RECURSIVE ParseValue(_, _), ParseElements(_, _)
\* The position after the JSON value that starts at s[i]; 0 when none does.
ParseValue(s, i) ==
    IF i > Len(s) THEN 0
    ELSE IF s[i] \in ObjectTokens THEN i + 1
    ELSE IF s[i] = "[" THEN
        IF i + 1 <= Len(s) /\ s[i + 1] = "]" THEN i + 2 ELSE ParseElements(s, i + 1)
    ELSE IF s[i] \in ObjectOpeners THEN
        LET j == ParseValue(s, i + 1)
        IN IF j # 0 /\ j <= Len(s) /\ s[j] = "}" THEN j + 1 ELSE 0
    ELSE 0

\* The position after the "]" that closes the array whose next element
\* starts at s[i]; 0 when the elements are malformed.
ParseElements(s, i) ==
    LET j == ParseValue(s, i)
    IN IF j = 0 \/ j > Len(s) THEN 0
       ELSE IF s[j] = "]" THEN j + 1
       ELSE IF s[j] = "," THEN ParseElements(s, j + 1)
       ELSE 0

\* json.loads(s) does not raise JSONDecodeError.
JsonLoads(s) == s # <<>> /\ ParseValue(s, 1) = Len(s) + 1

RECURSIVE Elements(_, _)
\* The elements of the array whose first element starts at s[i]: an object
\* token; "list" for a nested array; "dict" for a nested {"test_cases": v};
\* for a test case object with Grounded_In: v, "tcl" when v is a list of
\* strings (here the empty list) and "tcx" when it is anything else.
Elements(s, i) ==
    IF s[i] = "]" THEN <<>>
    ELSE LET j == ParseValue(s, i)
             e == CASE s[i] = "[" -> "list"
                    [] s[i] = "{tc:" -> "dict"
                    [] s[i] = "{g:" ->
                          IF s[i + 1] = "[" /\ s[i + 2] = "]" THEN "tcl" ELSE "tcx"
                    [] OTHER -> s[i]
         IN <<e>> \o Elements(s, IF s[j] = "," THEN j + 1 ELSE j)

FirstIndex(s, t) ==
    IF \E i \in 1..Len(s) : s[i] = t
    THEN CHOOSE i \in 1..Len(s) : s[i] = t /\ \A j \in 1..(i - 1) : s[j] # t
    ELSE 0

LastIndex(s, t) ==
    IF \E i \in 1..Len(s) : s[i] = t
    THEN CHOOSE i \in 1..Len(s) : s[i] = t /\ \A j \in (i + 1)..Len(s) : s[j] # t
    ELSE 0

\* The span a lazy pattern, r'\[.*?\]', would match: from the first "[" to
\* the first "]" after it.
ExtractArrayLazy(content) ==
    LET a == FirstIndex(content, "[")
        after == IF a = 0 THEN <<>> ELSE SubSeq(content, a, Len(content))
        b == FirstIndex(after, "]")
    IN IF b # 0 THEN SubSeq(after, 1, b) ELSE <<>>

\* re.search(r'\[.*\]', content_str, re.DOTALL): the match runs from the
\* first "[" to the last "]"; <<>> when there is no match.
ExtractArray(content) ==
    LET a == FirstIndex(content, "[")
        b == LastIndex(content, "]")
    IN IF a # 0 /\ b > a THEN SubSeq(content, a, b) ELSE <<>>

\* The two parse attempts: the parsed text, or the HTTPException raised.
ParseReply(content) ==
    IF JsonLoads(content) THEN [raised |-> "", text |-> content]
    ELSE LET m == ExtractArray(content)
         IN IF m = <<>> THEN [raised |-> DInvalidJsonNoArray, text |-> <<>>]
            ELSE IF JsonLoads(m) THEN [raised |-> "", text |-> m]
            ELSE [raised |-> DInvalidJsonExtraction, text |-> <<>>]

\* test_cases_data: the parsed value, a top-level {"test_cases": v} replaced
\* by v.
TestCasesData(text) ==
    IF text[1] = "{tc:" THEN SubSeq(text, 2, Len(text) - 1) ELSE text

\* What the loop iterates over: the elements of a list; the keys (strings)
\* of a dict.
Iterated(data) ==
    IF data[1] = "[" THEN Elements(data, 2) ELSE <<"str">>

\* One turn of the loop: the exception it raises, "" when TestCase(**tc)
\* is built.
ProcessRecord(tc) ==
    CASE tc \in {"tc1", "tc2", "tcl"} -> ""
      [] tc \in {"bad", "dict", "tcx"} -> "ValidationError"
      [] OTHER -> "AttributeError"

RECURSIVE ProcessRecordsSkipping(_)
\* A loop that would leave out the records that raise and go on.
ProcessRecordsSkipping(tcs) ==
    IF tcs = <<>> THEN [raised |-> "", cases |-> <<>>]
    ELSE LET rest == ProcessRecordsSkipping(Tail(tcs))
         IN IF ProcessRecord(Head(tcs)) # "" THEN rest
            ELSE [raised |-> "", cases |-> <<Head(tcs)>> \o rest.cases]

RECURSIVE ProcessRecords(_)
\* The loop over test_cases_data: it stops at the first exception.
ProcessRecords(tcs) ==
    IF tcs = <<>> THEN [raised |-> "", cases |-> <<>>]
    ELSE IF ProcessRecord(Head(tcs)) # ""
         THEN [raised |-> ProcessRecord(Head(tcs)), cases |-> <<>>]
    ELSE LET rest == ProcessRecords(Tail(tcs))
         IN IF rest.raised # "" THEN rest
            ELSE [raised |-> "", cases |-> <<Head(tcs)>> \o rest.cases]

\* The except clauses of generate_test_cases: the detail of the
\* HTTPException that leaves the call when `exc` was raised in the try.
ExceptClauses(exc) ==
    IF exc = "JSONDecodeError" THEN DInvalidJson ELSE DBadTestCaseData

\* The try block of generate_test_cases once the model has answered
\* (content # <<>>) or the call to it has raised (content = <<>>).
\* cause: where the failure arose.
GenerateTestCases(called, content) ==
    IF ~called
    THEN [detail |-> ExceptClauses("APIError"), cause |-> "service", cases |-> <<>>]
    ELSE LET parsed == ParseReply(content)
         IN IF parsed.raised # ""
            THEN [detail |-> ExceptClauses(parsed.raised), cause |-> "format",
                  cases |-> <<>>]
            ELSE LET done == ProcessRecords(Iterated(TestCasesData(parsed.text)))
                 IN IF done.raised # ""
                    THEN [detail |-> ExceptClauses(done.raised),
                          cause |-> IF done.raised = "ValidationError"
                                    THEN "validation" ELSE "shape",
                          cases |-> <<>>]
                    ELSE [detail |-> "ok", cause |-> "", cases |-> done.cases]

\* Replies the generative model gives in the runs of the whole service.
ServiceReplies ==
    { <<"[", "tc1", "]">>,
      <<"p", "~~~", "[", "tc1", ",", "{g:", "[", "]", "}", "]", "~~~">>,
      <<"p">>,
      <<"[", "tc1", ",", "bad", "]">> }

\* ------------------------------------------------------------- state
VARIABLES
    vector_store,        \* rag.vector_store: None, a build's index, or Corrupt
    embedding_function,  \* rag.embedding_function: None or a loaded model
    lru_cache,           \* the lru_cache entry of _get_embedding_model_cached
    loads,               \* executions of its body since the process started
    dir,                 \* FAISS_PERSIST_DIR exists
    files,               \* per artifact, the build that wrote it (None: absent)
    nIndex,              \* indexes built so far by FAISS.from_texts
    pc, op, req, loc,    \* per request: position, operation, arguments, locals
    ctx,                 \* per request: the knowledge base when the call began
    result,              \* per request: what the call returned or raised
    touched,             \* per request: the effects the call has had so far
    nBuilds, nReads, nRestarts,
    content_str,         \* decoding on its own: the model's reply
    parts,               \* the pieces the reply was put together from
    outcome,             \* what generate_test_cases made of it
    phase,
    uploads,             \* content on its own: the arguments of the build
    docstore,            \* the chunks (text and metadata) of the store built
    built,               \* what load_and_ingest_documents returned or raised
    retrieved,           \* what retrieve_context_with_sources returned
    script,              \* what generate_selenium_script did
    stage,
    source_files,        \* the loop body on its own: the sources retrieved
    record,              \* a record (tc) of the reply
    processed_tc,        \* the TestCase made of it, or the exception
    looped

decodeVars == <<content_str, parts, outcome, phase>>

contentVars == <<uploads, docstore, built, retrieved, script, stage>>

loopVars == <<source_files, record, processed_tc, looped>>

\* What the runs of the whole service leave alone.
pureVars == <<decodeVars, contentVars, loopVars>>

vars == <<vector_store, embedding_function, lru_cache, loads, dir, files, nIndex,
          pc, op, req, loc, ctx, result, touched, nBuilds, nReads, nRestarts,
          pureVars>>

kbVars == <<vector_store, embedding_function, lru_cache, loads, dir, files, nIndex>>

budgets == <<nBuilds, nReads, nRestarts>>

NoParts == [wrapped |-> FALSE, pre |-> <<>>, fenced |-> FALSE, array |-> <<>>,
            post |-> <<>>]

NoOutcome == [detail |-> "", cause |-> "", cases |-> <<>>]

NoReq == [files |-> <<>>, html |-> NoFile]

\* i: position in `files`; documents: the documents, then the chunks;
\* model: what the executor job returned; store: the index a load read or a
\* search runs on.
NoLoc == [i |-> 1, documents |-> <<>>, model |-> None, store |-> None]

\* mem, disk: whether an index was resident, and whether a complete one was
\* persisted, when the call began; cause: where a failure of
\* generate_test_cases arose.
NoCtx == [mem |-> FALSE, disk |-> FALSE, cause |-> ""]

NoRetrieved == [k |-> 0, docs |-> <<>>, context_texts |-> <<>>, source_files |-> <<>>]

NoScript == [cause |-> "", detail |-> "", called |-> FALSE, html_content |-> ""]

NoTc == [fields |-> FALSE, kind |-> "none", val |-> <<>>]

NoProcessed == [raised |-> "", Grounded_In |-> <<>>]

DecodeOff ==
    /\ content_str = <<>>
    /\ parts = NoParts
    /\ outcome = NoOutcome
    /\ phase = "off"

ContentOff ==
    /\ uploads = NoReq
    /\ docstore = <<>>
    /\ built = ""
    /\ retrieved = NoRetrieved
    /\ script = NoScript
    /\ stage = "off"

LoopOff ==
    /\ source_files = <<>>
    /\ record = NoTc
    /\ processed_tc = NoProcessed
    /\ looped = "off"

ServiceInit ==
    /\ vector_store = None
    /\ embedding_function = None
    /\ lru_cache = None
    /\ loads = 0
    /\ dir = FALSE
    /\ files = [a \in Artifacts |-> None]
    /\ nIndex = 0
    /\ pc = [p \in Procs |-> "idle"]
    /\ op = [p \in Procs |-> "none"]
    /\ req = [p \in Procs |-> NoReq]
    /\ loc = [p \in Procs |-> NoLoc]
    /\ ctx = [p \in Procs |-> NoCtx]
    /\ result = [p \in Procs |-> "none"]
    /\ touched = [p \in Procs |-> {}]
    /\ nBuilds = 0
    /\ nReads = 0
    /\ nRestarts = 0

Init ==
    /\ ServiceInit
    /\ DecodeOff
    /\ ContentOff
    /\ LoopOff

Free(p) == pc[p] \in {"idle", "done"}

\* Request p begins operation o with arguments r.
Begin(p, o, r) ==
    /\ Free(p)
    /\ op' = [op EXCEPT ![p] = o]
    /\ req' = [req EXCEPT ![p] = r]
    /\ ctx' = [ctx EXCEPT ![p] = [mem |-> vector_store # None,
                                  disk |-> PersistedIndex(dir, files) # None,
                                  cause |-> ""]]
    /\ touched' = [touched EXCEPT ![p] = {}]

\* The call of request p goes on at position at.
Goto(p, at) ==
    /\ pc' = [pc EXCEPT ![p] = at]
    /\ result' = [result EXCEPT ![p] = "none"]

\* The call of request p ends with outcome r; its frame is gone.
Finish(p, r) ==
    /\ pc' = [pc EXCEPT ![p] = "done"]
    /\ result' = [result EXCEPT ![p] = r]
    /\ loc' = [loc EXCEPT ![p] = NoLoc]

Touch(p, effects) == touched' = [touched EXCEPT ![p] = @ \cup effects]

\* ------------------------------------------- load_and_ingest_documents
\* Entry of load_and_ingest_documents, up to its first await.
IngestEntry(p, fs, h) ==
    /\ nBuilds < MaxBuilds
    /\ nBuilds' = nBuilds + 1
    /\ Begin(p, "build", [files |-> fs, html |-> h])
    /\ Goto(p, IF embedding_function = None THEN "m_lookup" ELSE "b_file")
    /\ loc' = [loc EXCEPT ![p] = NoLoc]
    /\ UNCHANGED <<kbVars, nReads, nRestarts, pureVars>>

LoadAndIngestDocuments(p) ==
    \E fs \in SeqsUpTo(SupportFiles, MaxDocs), h \in HtmlFiles \cup {NoFile} :
        IngestEntry(p, fs, h)

\* build_knowledge_base of main.py: both uploads are required fields, their
\* extensions are checked, then the core is called.
BuildKnowledgeBase(p) ==
    \E fs \in SeqsUpTo(SupportFiles, MaxDocs) \ {<<>>}, h \in HtmlFiles :
        IF \E i \in 1..Len(fs) : Suffix(fs[i].filename) \notin {".md", ".txt", ".json"}
        THEN /\ nBuilds < MaxBuilds
             /\ nBuilds' = nBuilds + 1
             /\ Begin(p, "build", NoReq)
             /\ Finish(p, DUnsupportedDoc)
             /\ UNCHANGED <<kbVars, nReads, nRestarts, pureVars>>
        ELSE IF Suffix(h.filename) \notin {".html", ".htm"}
        THEN /\ nBuilds < MaxBuilds
             /\ nBuilds' = nBuilds + 1
             /\ Begin(p, "build", NoReq)
             /\ Finish(p, DUnsupportedHtml)
             /\ UNCHANGED <<kbVars, nReads, nRestarts, pureVars>>
        ELSE IngestEntry(p, fs, h)

\* _get_embedding_model_cached on a pool thread: the lru_cache lookup.  A miss
\* starts the body; nothing holds other threads back meanwhile.
CacheLookup(p) ==
    /\ pc[p] = "m_lookup"
    /\ IF lru_cache # None
       THEN /\ loc' = [loc EXCEPT ![p].model = lru_cache]
            /\ pc' = [pc EXCEPT ![p] = "m_resume"]
            /\ UNCHANGED <<loads, touched>>
       ELSE /\ pc' = [pc EXCEPT ![p] = "m_body"]
            /\ loads' = loads + 1
            /\ Touch(p, {"model_load"})
            /\ UNCHANGED loc
    /\ UNCHANGED <<vector_store, embedding_function, lru_cache, dir, files, nIndex,
                   op, req, ctx, result, budgets, pureVars>>

\* The body returns a new model object, which lru_cache then stores.
ModelLoaded(p) ==
    /\ pc[p] = "m_body"
    /\ lru_cache' = p
    /\ loc' = [loc EXCEPT ![p].model = p]
    /\ pc' = [pc EXCEPT ![p] = "m_resume"]
    /\ UNCHANGED <<vector_store, embedding_function, loads, dir, files, nIndex,
                   op, req, ctx, result, touched, budgets, pureVars>>

\* The body raises: nothing is cached and the exception leaves the call.
ModelLoadRaises(p) ==
    /\ pc[p] = "m_body"
    /\ Finish(p, "Exception")
    /\ req' = [req EXCEPT ![p] = NoReq]
    /\ UNCHANGED <<kbVars, op, ctx, touched, budgets, pureVars>>

\* initialize_embedding_model resumes and assigns the global.
InitializeEmbeddingModel(p) ==
    /\ pc[p] = "m_resume"
    /\ embedding_function' = loc[p].model
    /\ pc' = [pc EXCEPT ![p] = "b_file"]
    /\ UNCHANGED <<vector_store, lru_cache, loads, dir, files, nIndex,
                   op, req, loc, ctx, result, touched, budgets, pureVars>>

\* One turn of the loop over the support documents.
IngestSupportFile(p) ==
    /\ pc[p] = "b_file"
    /\ loc[p].i <= Len(req[p].files)
    /\ LET f == req[p].files[loc[p].i]
       IN loc' = [loc EXCEPT ![p].i = @ + 1,
                             ![p].documents = IF Truthy(ParseDocument(f))
                                              THEN Append(@, SupportDoc(f)) ELSE @]
    /\ Touch(p, {"temp_file", "file_read"})
    /\ UNCHANGED <<kbVars, pc, op, req, ctx, result, budgets, pureVars>>

\* Storing or reading the upload raises in that turn.
SupportFileRaises(p) ==
    /\ pc[p] = "b_file"
    /\ loc[p].i <= Len(req[p].files)
    /\ Touch(p, {"temp_file", "file_read"})
    /\ Finish(p, DFileError)
    /\ req' = [req EXCEPT ![p] = NoReq]
    /\ UNCHANGED <<kbVars, op, ctx, budgets, pureVars>>

\* The target HTML file, then the check that some document was loaded.
IngestHtmlFile(p) ==
    /\ pc[p] = "b_file"
    /\ loc[p].i > Len(req[p].files)
    /\ LET h == req[p].html
           documents == IF h = NoFile THEN loc[p].documents
                        ELSE loc[p].documents \o HtmlDocs(h)
       IN /\ Touch(p, IF h = NoFile THEN {} ELSE {"temp_file", "file_read"})
          /\ IF documents = <<>>
             THEN Finish(p, DNoValidDocuments)
             ELSE /\ loc' = [loc EXCEPT ![p].documents = documents]
                  /\ pc' = [pc EXCEPT ![p] = "b_split"]
                  /\ UNCHANGED result
    /\ req' = [req EXCEPT ![p] = NoReq]
    /\ UNCHANGED <<kbVars, op, ctx, budgets, pureVars>>

\* Storing or reading the HTML upload raises.
HtmlFileRaises(p) ==
    /\ pc[p] = "b_file"
    /\ loc[p].i > Len(req[p].files)
    /\ req[p].html # NoFile
    /\ Touch(p, {"temp_file", "file_read"})
    /\ Finish(p, DHtmlError)
    /\ req' = [req EXCEPT ![p] = NoReq]
    /\ UNCHANGED <<kbVars, op, ctx, budgets, pureVars>>

\* Splitting, filtering, and the checks before the index is built.
SplitAndFilter(p) ==
    /\ pc[p] = "b_split"
    /\ LET filtered_docs == FilteredDocs(SplitDocuments(loc[p].documents))
       IN IF filtered_docs = <<>>
          THEN Finish(p, DNoContent)
          ELSE IF embedding_function = None
          THEN Finish(p, DBuildError)
          ELSE /\ loc' = [loc EXCEPT ![p].documents = filtered_docs]
               /\ pc' = [pc EXCEPT ![p] = "b_embed"]
               /\ UNCHANGED result
    /\ UNCHANGED <<kbVars, op, req, ctx, touched, budgets, pureVars>>

\* FAISS.from_texts raises on its pool thread.
FromTextsRaises(p) ==
    /\ pc[p] = "b_embed"
    /\ Finish(p, DBuildError)
    /\ UNCHANGED <<kbVars, op, req, ctx, touched, budgets, pureVars>>

\* FAISS.from_texts returned: the global is assigned, the directory made and
\* the index saved, with no await in between.  mk: os.makedirs succeeded;
\* written: the artifacts save_local wrote before it returned or raised.
AssignAndPersist(p, mk, written) ==
    /\ pc[p] = "b_embed"
    /\ nIndex' = nIndex + 1
    /\ vector_store' = nIndex + 1
    /\ IF mk
       THEN /\ dir' = TRUE
            /\ files' = SaveLocal(files, nIndex + 1, written)
            /\ Touch(p, {"vector_store", "makedirs"}
                        \cup IF written > 0 THEN {"index_write"} ELSE {})
       ELSE /\ UNCHANGED <<dir, files>>
            /\ Touch(p, {"vector_store"})
    /\ Finish(p, IF mk /\ written = Len(ArtifactFiles) THEN "ok" ELSE DBuildError)
    /\ UNCHANGED <<embedding_function, lru_cache, loads, op, req, ctx, budgets, pureVars>>

BuildPersisted(p) == AssignAndPersist(p, TRUE, Len(ArtifactFiles))

SaveLocalRaises(p) ==
    \E written \in 0..(Len(ArtifactFiles) - 1) : AssignAndPersist(p, TRUE, written)

MakedirsRaises(p) ==
    /\ ~dir
    /\ AssignAndPersist(p, FALSE, 0)

\* ---------------------------------------------------------- retrieval
\* retrieve_context / retrieve_context_with_sources up to the first await.
RetrieveEntry(p, o) ==
    /\ nReads < MaxReads
    /\ nReads' = nReads + 1
    /\ Begin(p, o, NoReq)
    /\ IF vector_store = None
       THEN IF PersistDirExists(dir)
            THEN /\ Goto(p, "r_load")
                 /\ loc' = [loc EXCEPT ![p] = NoLoc]
            ELSE Finish(p, DNotBuilt)
       ELSE IF embedding_function = None
            THEN Finish(p, DNotBuilt)
            ELSE /\ Goto(p, "r_search")
                 /\ loc' = [loc EXCEPT ![p] = [NoLoc EXCEPT !.store = vector_store]]
    /\ UNCHANGED <<kbVars, nBuilds, nRestarts, pureVars>>

RetrieveContext(p) == RetrieveEntry(p, "retrieve")

\* generate_test_cases called directly: it starts with the retrieval.
GenerateTestCasesCall(p) == RetrieveEntry(p, "generate")

\* return vector_store is not None or os.path.exists(FAISS_PERSIST_DIR)
IsKnowledgeBaseBuilt == vector_store # None \/ PersistDirExists(dir)

\* api_generate_test_cases of main.py: the readiness check, then the core.
ApiGenerateTestCases(p) ==
    IF ~IsKnowledgeBaseBuilt
    THEN /\ nReads < MaxReads
         /\ nReads' = nReads + 1
         /\ Begin(p, "generate", NoReq)
         /\ Finish(p, DApiNotBuilt)
         /\ UNCHANGED <<kbVars, nBuilds, nRestarts, pureVars>>
    ELSE RetrieveEntry(p, "generate")

\* is_knowledge_base_built(), called on its own.
IsKnowledgeBaseBuiltCall(p) ==
    /\ nReads < MaxReads
    /\ nReads' = nReads + 1
    /\ Begin(p, "is_built", NoReq)
    /\ Finish(p, IF IsKnowledgeBaseBuilt THEN "True" ELSE "False")
    /\ UNCHANGED <<kbVars, nBuilds, nRestarts, pureVars>>

\* FAISS.load_local on a pool thread reads the directory.
LoadLocalRuns(p) ==
    /\ pc[p] = "r_load"
    /\ \E v \in LoadLocal(dir, files) : loc' = [loc EXCEPT ![p].store = v]
    /\ pc' = [pc EXCEPT ![p] = "r_loaded"]
    /\ UNCHANGED <<kbVars, op, req, ctx, result, touched, budgets, pureVars>>

\* The coroutine resumes after the load: the global is assigned, then both
\* globals are checked.
LoadResumes(p) ==
    /\ pc[p] = "r_loaded"
    /\ IF loc[p].store = LoadFailed
       THEN /\ Finish(p, DLoadError)
            /\ UNCHANGED <<vector_store, touched>>
       ELSE /\ vector_store' = loc[p].store
            /\ Touch(p, {"vector_store"})
            /\ IF embedding_function = None
               THEN Finish(p, DNotBuilt)
               ELSE /\ pc' = [pc EXCEPT ![p] = "r_search"]
                    /\ UNCHANGED <<result, loc>>
    /\ UNCHANGED <<embedding_function, lru_cache, loads, dir, files, nIndex,
                   op, req, ctx, budgets, pureVars>>

\* vector_store.similarity_search returned on its pool thread.
SearchReturns(p) ==
    /\ pc[p] = "r_search"
    /\ IF op[p] = "retrieve"
       THEN Finish(p, "ok")
       ELSE /\ pc' = [pc EXCEPT ![p] = "g_call"]
            /\ loc' = [loc EXCEPT ![p] = NoLoc]
            /\ UNCHANGED result
    /\ UNCHANGED <<kbVars, op, req, ctx, touched, budgets, pureVars>>

\* similarity_search raises: a store put together from two builds.
SearchRaises(p) ==
    /\ pc[p] = "r_search"
    /\ loc[p].store = Corrupt
    /\ Finish(p, DRetrieveError)
    /\ UNCHANGED <<kbVars, op, req, ctx, touched, budgets, pureVars>>

\* ------------------------------------------------ generate_test_cases
\* client.chat.completions.create is awaited; the rest of the try block and
\* the except clauses follow without another await.
ModelCall(p, called, content) ==
    /\ pc[p] = "g_call"
    /\ LET out == GenerateTestCases(called, content)
       IN /\ Finish(p, out.detail)
          /\ ctx' = [ctx EXCEPT ![p].cause = out.cause]
    /\ Touch(p, {"model_call"})
    /\ UNCHANGED <<kbVars, op, req, budgets, pureVars>>

ModelReplies(p) == \E content \in ServiceReplies : ModelCall(p, TRUE, content)

ModelCallRaises(p) == ModelCall(p, FALSE, <<>>)

\* ------------------------------------------------------------ restart
\* The process ends and a new one starts: module globals and the lru_cache
\* are as at import, requests in flight are gone, the directory stays.
Reboot ==
    /\ nRestarts < MaxRestarts
    /\ nRestarts' = nRestarts + 1
    /\ vector_store' = None
    /\ embedding_function' = None
    /\ lru_cache' = None
    /\ loads' = 0
    /\ pc' = [p \in Procs |-> "idle"]
    /\ op' = [p \in Procs |-> "none"]
    /\ req' = [p \in Procs |-> NoReq]
    /\ loc' = [p \in Procs |-> NoLoc]
    /\ ctx' = [p \in Procs |-> NoCtx]
    /\ result' = [p \in Procs |-> "none"]
    /\ touched' = [p \in Procs |-> {}]
    /\ UNCHANGED <<nBuilds, nReads, pureVars>>

Restart ==
    /\ Reboot
    /\ UNCHANGED <<dir, files, nIndex>>

\* The process ends while save_local of request p is writing.
KilledWhileSaving(p) ==
    /\ pc[p] = "b_embed"
    /\ \E written \in 0..(Len(ArtifactFiles) - 1) :
          /\ dir' = TRUE
          /\ files' = SaveLocal(files, nIndex + 1, written)
    /\ nIndex' = nIndex + 1
    /\ Reboot

Next ==
    \/ \E p \in Procs :
        \/ LoadAndIngestDocuments(p)
        \/ BuildKnowledgeBase(p)
        \/ CacheLookup(p)
        \/ ModelLoaded(p)
        \/ ModelLoadRaises(p)
        \/ InitializeEmbeddingModel(p)
        \/ IngestSupportFile(p)
        \/ SupportFileRaises(p)
        \/ IngestHtmlFile(p)
        \/ HtmlFileRaises(p)
        \/ SplitAndFilter(p)
        \/ FromTextsRaises(p)
        \/ BuildPersisted(p)
        \/ SaveLocalRaises(p)
        \/ MakedirsRaises(p)
        \/ RetrieveContext(p)
        \/ GenerateTestCasesCall(p)
        \/ ApiGenerateTestCases(p)
        \/ IsKnowledgeBaseBuiltCall(p)
        \/ LoadLocalRuns(p)
        \/ LoadResumes(p)
        \/ SearchReturns(p)
        \/ SearchRaises(p)
        \/ ModelReplies(p)
        \/ ModelCallRaises(p)
        \/ KilledWhileSaving(p)
    \/ Restart

Spec == Init /\ [][Next]_vars

\* ------------------------------------------- decoding, on its own
\* The text of a test case object of the given kind.
RenderCase(tc) ==
    CASE tc = "tcl" -> <<"{g:", "[", "]", "}">>
      [] tc = "tcx" -> <<"{g:", "bad", "}">>
      [] tc = "dict" -> <<"{tc:", "[", "]", "}">>
      [] tc = "list" -> <<"[", "]">>
      [] OTHER -> <<tc>>

RECURSIVE RenderCases(_)
RenderCases(tcs) ==
    IF tcs = <<>> THEN <<>>
    ELSE IF Len(tcs) = 1 THEN RenderCase(tcs[1])
    ELSE RenderCase(tcs[1]) \o <<",">> \o RenderCases(Tail(tcs))

\* json.dumps of an array of test case objects.
RenderArray(tcs) == <<"[">> \o RenderCases(tcs) \o <<"]">>

\* The array inside a fenced block (when fenced) between two runs of prose.
Wrap(pre, fenced, tcs, post) ==
    LET fence == IF fenced THEN <<"~~~">> ELSE <<>>
    IN pre \o fence \o RenderArray(tcs) \o fence \o post

\* Prose may hold square brackets of its own.
ProseTokens == {"p", "[", "]"}

ValidCases == {"tc1", "tc2", "tcl"}

\* Array elements that TestCase(**tc) does not accept: an object without the
\* fields, one whose Grounded_In is no list of strings, a nested
\* {"test_cases": []}, and a nested array (no object at all).
InvalidCases == {"bad", "tcx", "dict", "list"}

\* The reply is drawn as an array of valid test case objects put into prose
\* and a fence, as a bare array with an element that is no test case, or as
\* an arbitrary run of tokens.
DecodeInit ==
    /\ ServiceInit
    /\ \/ \E pre \in SeqsUpTo(ProseTokens, MaxProse), post \in SeqsUpTo(ProseTokens, MaxProse),
             fenced \in BOOLEAN, tcs \in SeqsUpTo(ValidCases, MaxCases) :
             /\ parts = [wrapped |-> TRUE, pre |-> pre, fenced |-> fenced,
                         array |-> tcs, post |-> post]
             /\ content_str = Wrap(pre, fenced, tcs, post)
       \/ \E tcs \in SeqsUpTo(ValidCases \cup InvalidCases, MaxRecords) :
             /\ \E i \in 1..Len(tcs) : tcs[i] \in InvalidCases
             /\ parts = [NoParts EXCEPT !.array = tcs]
             /\ content_str = RenderArray(tcs)
       \/ /\ parts = NoParts
          /\ content_str \in SeqsUpTo(Tokens, MaxRaw) \ {<<>>}
    /\ outcome = NoOutcome
    /\ phase = "called"
    /\ ContentOff
    /\ LoopOff

\* The model answers with content_str and the reply is decoded.
DecodeReply ==
    /\ phase = "called"
    /\ outcome' = GenerateTestCases(TRUE, content_str)
    /\ phase' = "done"
    /\ UNCHANGED <<content_str, parts>>

\* The call to the model raises instead.
DecodeNoReply ==
    /\ phase = "called"
    /\ outcome' = GenerateTestCases(FALSE, <<>>)
    /\ phase' = "done"
    /\ UNCHANGED <<content_str, parts>>

serviceVars == <<vector_store, embedding_function, lru_cache, loads, dir, files, nIndex,
                 pc, op, req, loc, ctx, result, touched, nBuilds, nReads, nRestarts>>

DecodeNext ==
    \/ DecodeReply /\ UNCHANGED <<serviceVars, contentVars, loopVars>>
    \/ DecodeNoReply /\ UNCHANGED <<serviceVars, contentVars, loopVars>>

SpecDecode == DecodeInit /\ [][DecodeNext]_vars

\* ------------------------------------ the content of the store, on its own
\* What one build puts into the store and what the searches give back, for
\* a single request at a time.
ScriptSearchK == 10

DefaultK == 4

TargetSource == "checkout.html"

\* Support documents of every kind: also a PDF whose second page cannot be
\* read and a document too long for one chunk.
BatchFiles ==
    SupportFiles \cup { [filename |-> "manual.pdf",  body |-> "truncated"],
                        [filename |-> "handbook.md", body |-> "long"] }

\* The target page, also under a name of its own.
HtmlUploads == HtmlFiles \cup { [filename |-> "index.html", body |-> "markup"] }

\* The orders a finite set can be listed in.
Orderings(S) ==
    {u \in SeqsUpTo(S, Cardinality(S)) :
        /\ Len(u) = Cardinality(S)
        /\ \A x \in S : \E i \in 1..Len(u) : u[i] = x}

RECURSIVE SupportDocuments(_)
\* The loop over `files` when no read raises: a document for every file
\* whose text is not empty.
SupportDocuments(fs) ==
    IF fs = <<>> THEN <<>>
    ELSE (IF Truthy(ParseDocument(Head(fs))) THEN <<SupportDoc(Head(fs))>> ELSE <<>>)
         \o SupportDocuments(Tail(fs))

\* load_and_ingest_documents up to FAISS.from_texts: the chunks handed to it,
\* or the HTTPException raised before.
Ingest(fs, html) ==
    LET documents == SupportDocuments(fs)
                       \o (IF html = NoFile THEN <<>> ELSE HtmlDocs(html))
        filtered_docs == FilteredDocs(SplitDocuments(documents))
    IN IF documents = <<>> THEN [detail |-> DNoValidDocuments, chunks |-> <<>>]
       ELSE IF filtered_docs = <<>> THEN [detail |-> DNoContent, chunks |-> <<>>]
       ELSE [detail |-> "ok", chunks |-> filtered_docs]

RECURSIVE NearestFirst(_, _)
\* The chunks by distance to the query: rank lists the distinct chunks
\* nearest first; chunks that are equal are equally near.
NearestFirst(docs, rank) ==
    IF rank = <<>> THEN <<>>
    ELSE SelectSeq(docs, LAMBDA d : d = Head(rank)) \o NearestFirst(docs, Tail(rank))

\* vector_store.similarity_search(query, k): the k nearest chunks, all of
\* them when the store holds fewer.
SimilaritySearch(docs, rank, k) ==
    LET nearest == NearestFirst(docs, rank)
    IN SubSeq(nearest, 1, IF Len(nearest) < k THEN Len(nearest) ELSE k)

\* The sources listed from the last chunk to the first.
SourceFilesReversed(docs) == [i \in 1..Len(docs) |-> docs[Len(docs) + 1 - i].source]

\* [doc.metadata.get("source", "unknown_source") for doc in docs]
SourceFiles(docs) == [i \in 1..Len(docs) |-> docs[i].source]

\* [doc.page_content for doc in docs]
ContextTexts(docs) == [i \in 1..Len(docs) |-> docs[i].content]

RECURSIVE HtmlContent(_)
\* The loop over html_docs: the text of the first chunk of checkout.html
\* with type html_full, "" when there is none.
HtmlContent(html_docs) ==
    IF html_docs = <<>> THEN ""
    ELSE IF Head(html_docs).source = TargetSource /\ Head(html_docs).type = "html_full"
         THEN Head(html_docs).content
         ELSE HtmlContent(Tail(html_docs))

\* The except clause of generate_selenium_script: the detail of the
\* HTTPException that leaves the call, whatever was raised in the try.
ScriptExceptClause(exc) == DScriptError

\* The try block of generate_selenium_script.  answered: the call to the
\* generative model returned.  cause: where a failure arose; called: whether
\* the generative model was called.
GenerateSeleniumScript(html_docs, answered) ==
    LET html_content == HtmlContent(html_docs)
    IN IF html_content = ""
       THEN [cause |-> "markup", detail |-> ScriptExceptClause(DTargetNotFound),
             called |-> FALSE, html_content |-> ""]
       ELSE IF ~answered
       THEN [cause |-> "service", detail |-> ScriptExceptClause("APIError"),
             called |-> TRUE, html_content |-> html_content]
       ELSE [cause |-> "", detail |-> "ok", called |-> TRUE,
             html_content |-> html_content]

ContentInit ==
    /\ ServiceInit
    /\ DecodeOff
    /\ LoopOff
    /\ \E fs \in SeqsUpTo(BatchFiles, MaxBatch), html \in HtmlUploads \cup {NoFile} :
          uploads = [files |-> fs, html |-> html]
    /\ docstore = <<>>
    /\ built = ""
    /\ retrieved = NoRetrieved
    /\ script = NoScript
    /\ stage = "called"

\* load_and_ingest_documents runs to its end with no read, embedding or
\* write raising.
IngestReturns ==
    /\ stage = "called"
    /\ LET r == Ingest(uploads.files, uploads.html)
       IN /\ built' = r.detail
          /\ docstore' = r.chunks
          /\ stage' = IF r.detail = "ok" THEN "built" ELSE "failed"
    /\ UNCHANGED <<uploads, retrieved, script>>

\* Storing or reading one of the uploads raises.
IngestReadRaises ==
    /\ stage = "called"
    /\ \/ uploads.files # <<>> /\ built' = DFileError
       \/ uploads.html # NoFile /\ built' = DHtmlError
    /\ stage' = "failed"
    /\ UNCHANGED <<uploads, docstore, retrieved, script>>

\* FAISS.from_texts raises.
IngestFromTextsRaises ==
    /\ stage = "called"
    /\ Ingest(uploads.files, uploads.html).detail = "ok"
    /\ built' = DBuildError
    /\ stage' = "failed"
    /\ UNCHANGED <<uploads, docstore, retrieved, script>>

\* retrieve_context_with_sources(query, k) on the store built.
RetrieveContextWithSources ==
    /\ stage = "built"
    /\ \E k \in 1..DefaultK, rank \in Orderings({docstore[i] : i \in 1..Len(docstore)}) :
          LET docs == SimilaritySearch(docstore, rank, k)
          IN retrieved' = [k |-> k, docs |-> docs,
                           context_texts |-> ContextTexts(docs),
                           source_files |-> SourceFiles(docs)]
    /\ stage' = "retrieved"
    /\ UNCHANGED <<uploads, docstore, built, script>>

\* generate_selenium_script on the store built.
ScriptCall(answered) ==
    /\ stage = "built"
    /\ \E rank \in Orderings({docstore[i] : i \in 1..Len(docstore)}) :
          script' = GenerateSeleniumScript(
                        SimilaritySearch(docstore, rank, ScriptSearchK), answered)
    /\ stage' = "scripted"
    /\ UNCHANGED <<uploads, docstore, built, retrieved>>

ScriptModelReplies == ScriptCall(TRUE)

ScriptModelCallRaises == ScriptCall(FALSE)

ContentNext ==
    \/ IngestReturns /\ UNCHANGED <<serviceVars, decodeVars, loopVars>>
    \/ IngestReadRaises /\ UNCHANGED <<serviceVars, decodeVars, loopVars>>
    \/ IngestFromTextsRaises /\ UNCHANGED <<serviceVars, decodeVars, loopVars>>
    \/ RetrieveContextWithSources /\ UNCHANGED <<serviceVars, decodeVars, loopVars>>
    \/ ScriptModelReplies /\ UNCHANGED <<serviceVars, decodeVars, loopVars>>
    \/ ScriptModelCallRaises /\ UNCHANGED <<serviceVars, decodeVars, loopVars>>

SpecContent == ContentInit /\ [][ContentNext]_vars

\* ------------------------------------------ the loop body, on its own
\* Every string here is a sequence of symbols: a name is one symbol, and so
\* are the comma and the blank.
NameChars == {"specs.md", "ui.txt"}

Chars == NameChars \cup {",", " "}

\* The source names retrieve_context_with_sources can return.
SourceNames == {<<"specs.md">>, <<"ui.txt">>, <<"checkout.html">>}

\* ["context"]
Placeholder == << <<"context">> >>

ListItems == {<<"specs.md">>, <<"ui.txt">>, <<"context">>}

RECURSIVE Split(_, _)
\* s.split(sep)
Split(s, sep) ==
    LET i == FirstIndex(s, sep)
    IN IF i = 0 THEN <<s>>
       ELSE <<SubSeq(s, 1, i - 1)>> \o Split(SubSeq(s, i + 1, Len(s)), sep)

RECURSIVE LStrip(_)
LStrip(s) == IF s # <<>> /\ Head(s) = " " THEN LStrip(Tail(s)) ELSE s

RECURSIVE RStrip(_)
RStrip(s) ==
    IF s # <<>> /\ s[Len(s)] = " " THEN RStrip(SubSeq(s, 1, Len(s) - 1)) ELSE s

\* An item taken as it stands.
StripNothing(s) == s

\* s.strip()
Strip(s) == RStrip(LStrip(s))

\* [item.strip() for item in grounded_in_str.split(",") if item.strip()]
GroundedInList(grounded_in_str) ==
    LET items == Split(grounded_in_str, ",")
        stripped == [i \in 1..Len(items) |-> Strip(items[i])]
    IN SelectSeq(stripped, LAMBDA item : item # <<>>)

\* list(set(source_files)): the distinct sources, in an order the set gives.
UniqueSources(sources) == Orderings({sources[i] : i \in 1..Len(sources)})

\* A record of the reply: whether the four string fields are there, and its
\* Grounded_In: a string, a list of strings, a number, or none.
Records ==
    {[fields |-> f, kind |-> "str", val |-> v] :
        f \in BOOLEAN, v \in SeqsUpTo(Chars, MaxChars)}
    \cup {[fields |-> f, kind |-> "list", val |-> v] :
        f \in BOOLEAN, v \in SeqsUpTo(ListItems, MaxItems)}
    \cup {[fields |-> f, kind |-> k, val |-> <<>>] :
        f \in BOOLEAN, k \in {"num", "none"}}

\* tc["Grounded_In"] when TestCase(**tc) is reached.
GroundedIn(t, unique_sources) ==
    IF t.kind = "str" THEN [kind |-> "list", val |-> GroundedInList(t.val)]
    ELSE IF t.kind = "list" /\ t.val = Placeholder
    THEN [kind |-> "list", val |-> unique_sources]
    ELSE [kind |-> t.kind, val |-> t.val]

\* TestCase(**tc): the four strings and a list of strings.
TestCase(t, grounded_in) == t.fields /\ grounded_in.kind = "list"

\* One turn of the loop over test_cases_data.
LoopBody(t, unique_sources) ==
    LET grounded_in == GroundedIn(t, unique_sources)
    IN IF TestCase(t, grounded_in)
       THEN [raised |-> "", Grounded_In |-> grounded_in.val]
       ELSE [raised |-> "ValidationError", Grounded_In |-> <<>>]

LoopInit ==
    /\ ServiceInit
    /\ DecodeOff
    /\ ContentOff
    /\ source_files \in SeqsUpTo(SourceNames, MaxSources) \ {<<>>}
    /\ record \in Records
    /\ processed_tc = NoProcessed
    /\ looped = "todo"

\* The turn of the loop for the record.
ProcessTestCase ==
    /\ looped = "todo"
    /\ \E unique_sources \in UniqueSources(source_files) :
          processed_tc' = LoopBody(record, unique_sources)
    /\ looped' = "done"
    /\ UNCHANGED <<source_files, record>>

LoopNext == ProcessTestCase /\ UNCHANGED <<serviceVars, decodeVars, contentVars>>

SpecLoop == LoopInit /\ [][LoopNext]_vars

\* ============================================================ claims
\* What a call can do to the knowledge base: assign vector_store, create
\* the directory, write an artifact.
KnowledgeBaseEffects == {"vector_store", "makedirs", "index_write"}

EmptyCorpus == {DNoValidDocuments, DNoContent}

NotReady == {DNotBuilt, DApiNotBuilt}

Done(p, o) == op[p] = o /\ pc[p] = "done"

\* C1: a load_and_ingest_documents call that failed has changed neither
\* vector_store nor the persisted directory.
C1_FailedBuildChangesNothing ==
    \A p \in Procs :
        Done(p, "build") /\ result[p] # "ok" =>
            touched[p] \cap KnowledgeBaseEffects = {}

C3_SingleFlight ==
    /\ Cardinality({p \in Procs : pc[p] = "m_body"}) <= 1
    /\ \A p, q \in Procs :
          loc[p].model # None /\ loc[q].model # None => loc[p].model = loc[q].model

\* C4: two failed generate_test_cases calls whose failures are of different
\* kinds (service, format, validation) report different errors.
C4_FailureKindsDistinct ==
    \A p, q \in Procs :
        /\ Done(p, "generate") /\ Done(q, "generate")
        /\ ctx[p].cause \in {"service", "format", "validation"}
        /\ ctx[q].cause \in {"service", "format", "validation"}
        /\ ctx[p].cause # ctx[q].cause
        => result[p] # result[q]

\* C5: generate_test_cases called when no index is resident and no complete
\* index is persisted never calls the generative model and ends with the
\* not-ready error.
C5_NotReadyBeforeModelCall ==
    \A p \in Procs :
        op[p] = "generate" /\ ~ctx[p].mem /\ ~ctx[p].disk =>
            /\ "model_call" \notin touched[p]
            /\ pc[p] = "done" => result[p] \in NotReady

\* No chunk of the sequence has text left after stripping.
ZeroChunks(documents) ==
    \A i \in 1..Len(documents) : ~NonBlank(documents[i].content)

\* C6: a build whose documents give no non-blank chunk ends with the
\* empty-corpus error at the check it has reached, and a build that ended
\* so has changed neither vector_store nor the persisted directory.
C6_EmptyCorpusLeavesIndex ==
    /\ [](\A p \in Procs :
            Done(p, "build") /\ result[p] \in EmptyCorpus =>
                touched[p] \cap KnowledgeBaseEffects = {})
    /\ [][\A p \in Procs :
            /\ op[p] = "build"
            /\ pc[p] = "b_split"
            /\ ZeroChunks(loc[p].documents)
            /\ pc'[p] \notin {"b_split", "idle"}
            => /\ pc'[p] = "done"
               /\ result'[p] \in EmptyCorpus
               /\ UNCHANGED <<vector_store, dir, files>>]_vars

\* C6 witness: a build that ended with the empty-corpus error while an index
\* was resident and persisted, both still there.
C6_Witness ==
    \E p \in Procs :
        /\ Done(p, "build")
        /\ result[p] = DNoContent
        /\ ctx[p].mem /\ ctx[p].disk
        /\ vector_store # None
        /\ PersistedIndex(dir, files) # None

\* C7: a build request without support documents or without the HTML file
\* has no effect at all, at any point of the call.
C7_IncompleteRequestDoesNothing ==
    \A p \in Procs :
        /\ op[p] = "build"
        /\ pc[p] \notin {"idle", "done"}
        /\ req[p].files = <<>> \/ req[p].html = NoFile
        => touched[p] = {}

\* C8: is_knowledge_base_built returns True exactly when an index is
\* resident or a complete index is persisted.
C8_ReadyIffIndexExists ==
    \A p \in Procs :
        Done(p, "is_built") =>
            (result[p] = "True" <=> ctx[p].mem \/ ctx[p].disk)

\* C9: the persisted artifacts are, in every state, either all absent or
\* all written by one and the same build.
C9_PersistedIndexComplete ==
    \/ \A a \in Artifacts : files[a] = None
    \/ PersistedIndex(dir, files) # None

\* C10 as claimed: for every array of valid test case objects, the reply
\* that puts it into prose and a fence decodes to the list the bare array
\* decodes to, and decoding fails for the format only when neither the
\* whole reply nor the span from the first "[" to the last "]" parses.
C10_WrappedDecodesAsBare ==
    /\ phase = "done" /\ outcome.cause # "service" /\ parts.wrapped =>
          outcome.detail = "ok" /\ outcome.cases = parts.array
    /\ phase = "done" /\ outcome.cause = "format" =>
          ~JsonLoads(content_str) /\ ~JsonLoads(ExtractArray(content_str))

\* C10 amended: the same, for prose that has no "[" before the array and no
\* "]" after it.
C10_WrappedDecodesAsBareCleanProse ==
    /\ /\ phase = "done" /\ outcome.cause # "service" /\ parts.wrapped
       /\ \A i \in 1..Len(parts.pre) : parts.pre[i] # "["
       /\ \A i \in 1..Len(parts.post) : parts.post[i] # "]"
       => outcome.detail = "ok" /\ outcome.cases = parts.array
    /\ phase = "done" /\ outcome.cause = "format" =>
          ~JsonLoads(content_str) /\ ~JsonLoads(ExtractArray(content_str))

\* C10 witness: an array of two objects, one with a list inside, in a fence
\* with prose on both sides, decoded to its two test cases.
C10_Witness ==
    /\ phase = "done"
    /\ parts.wrapped /\ parts.fenced
    /\ parts.pre = <<"p", "]">> /\ parts.post = <<"[", "p">>
    /\ parts.array = <<"tcl", "tc1">>
    /\ outcome.detail = "ok"
    /\ outcome.cases = <<"tcl", "tc1">>

\* C11: when some record of the reply's array is no valid test case, whatever
\* its position, generate_test_cases ends with the error of the validation
\* and returns no test case of that reply.
C11_AllOrNothing ==
    /\ phase = "done"
    /\ outcome.cause # "service"
    /\ \E i \in 1..Len(parts.array) : parts.array[i] \in InvalidCases
    => /\ outcome.detail = DBadTestCaseData
       /\ outcome.cause \in {"validation", "shape"}
       /\ outcome.cases = <<>>

\* C11 witness: the invalid record is the last of three, after two valid
\* ones, and the call failed without a result.
C11_Witness ==
    /\ phase = "done"
    /\ parts.array = <<"tc1", "tcl", "bad">>
    /\ outcome.detail = DBadTestCaseData
    /\ outcome.cause = "validation"
    /\ outcome.cases = <<>>

\* C12: every entry of the Grounded_In of a TestCase the loop has built is
\* the source of a chunk the retrieval returned.
C12_GroundedInFromRetrieved ==
    looped = "done" /\ processed_tc.raised = "" =>
        \A i \in 1..Len(processed_tc.Grounded_In) :
            \E j \in 1..Len(source_files) :
                processed_tc.Grounded_In[i] = source_files[j]

\* The positions just before the delimited parts of s: 0 and the commas.
PartStarts(s) == {0} \cup {i \in 1..Len(s) : s[i] = ","}

\* The positions of the part after position a that hold no blank.
Inked(s, a) ==
    {i \in (a + 1)..Len(s) : s[i] # " " /\ \A j \in (a + 1)..i : s[j] # ","}

\* The part after position a, from its first to its last non-blank symbol.
Trimmed(s, a) ==
    LET ink == Inked(s, a)
        first == CHOOSE i \in ink : \A j \in ink : i <= j
        last == CHOOSE i \in ink : \A j \in ink : j <= i
    IN SubSeq(s, first, last)

\* The trimmed parts of s that are not empty, in their order in s.
TrimmedParts(s) ==
    LET starts == {a \in PartStarts(s) : Inked(s, a) # {}}
        nth(n) == CHOOSE a \in starts : Cardinality({b \in starts : b < a}) = n - 1
    IN [n \in 1..Cardinality(starts) |-> Trimmed(s, nth(n))]

\* C13: a Grounded_In that is a string becomes the list of its comma-delimited
\* parts, each trimmed of blanks, the empty ones dropped, in their order; a
\* Grounded_In that is a list other than the placeholder stays as it is.
C13_StringBecomesList ==
    looped = "done" /\ record.fields =>
        /\ record.kind = "str" =>
              /\ processed_tc.raised = ""
              /\ processed_tc.Grounded_In = TrimmedParts(record.val)
        /\ record.kind = "list" /\ record.val # Placeholder =>
              /\ processed_tc.raised = ""
              /\ processed_tc.Grounded_In = record.val

\* C13 witness: "specs.md, ui.txt" has become ["specs.md", "ui.txt"].
C13_Witness ==
    /\ looped = "done"
    /\ record.kind = "str"
    /\ record.val = <<"specs.md", ",", " ", "ui.txt">>
    /\ processed_tc.raised = ""
    /\ processed_tc.Grounded_In = << <<"specs.md">>, <<"ui.txt">> >>

\* The store holds a chunk of type html_full whose source is `name`.
HasMarkupOf(name) ==
    \E i \in 1..Len(docstore) :
        docstore[i].source = name /\ docstore[i].type = "html_full"

\* C14: when the store holds no html_full chunk of checkout.html,
\* generate_selenium_script fails without calling the generative model, and
\* with an error that is not the one a failed model call gives.
C14_TargetMarkupNotFound ==
    stage = "scripted" /\ ~HasMarkupOf(TargetSource) =>
        /\ script.detail # "ok"
        /\ ~script.called
        /\ script.detail # ScriptExceptClause("APIError")

\* C15: when the store holds the html_full chunk of the target HTML file of
\* the build, generate_selenium_script finds it, whatever the file is called
\* and wherever the chunk ranks.
C15_MarkupFoundByFilter ==
    stage = "scripted" /\ uploads.html # NoFile /\ HasMarkupOf(uploads.html.filename) =>
        /\ script.cause # "markup"
        /\ script.html_content # ""

\* _parse_document met an exception while it read the file.
ParsingFails(file) == file.body \in {"malformed", "truncated"}

\* _parse_document has no branch for the file's suffix.
Unsupported(file) == Suffix(file.filename) \notin {".md", ".txt", ".json", ".pdf", ".html"}

\* C16: when no read, embedding or write raises, a support document whose
\* parsing fails or whose type is unsupported has no chunk in the store, at
\* whatever position of the batch it is, and the build does not fail for it:
\* it ends with the empty-corpus error only when no other upload has text.
C16_FailingFileSkipped ==
    stage \in {"built", "failed"} /\ built \in {"ok"} \cup EmptyCorpus =>
        /\ \A i \in 1..Len(uploads.files) :
              ParsingFails(uploads.files[i]) \/ Unsupported(uploads.files[i]) =>
                  \A j \in 1..Len(docstore) :
                      docstore[j].source # uploads.files[i].filename
        /\ built \in EmptyCorpus =>
              /\ \A i \in 1..Len(uploads.files) :
                    \/ ParsingFails(uploads.files[i])
                    \/ Unsupported(uploads.files[i])
                    \/ ~NonBlank(uploads.files[i].body)
              /\ uploads.html = NoFile \/ uploads.html.body = "empty"

\* How often x occurs in the sequence q.
Count(q, x) == Cardinality({i \in 1..Len(q) : q[i] = x})

\* C17: retrieve_context_with_sources(query, k) returns as many sources as
\* texts, at most k, the i-th source and the i-th text being those of the
\* i-th chunk found; the chunks found are chunks of the store, none more
\* often than the store holds it, and all of them when the store holds no
\* more than k.
C17_AlignedAtMostK ==
    stage = "retrieved" =>
        /\ Len(retrieved.context_texts) = Len(retrieved.source_files)
        /\ Len(retrieved.context_texts) = Len(retrieved.docs)
        /\ Len(retrieved.docs) <= retrieved.k
        /\ \A i \in 1..Len(retrieved.docs) :
              /\ retrieved.source_files[i] = retrieved.docs[i].source
              /\ retrieved.context_texts[i] = retrieved.docs[i].content
              /\ Count(retrieved.docs, retrieved.docs[i]) <= Count(docstore, retrieved.docs[i])
        /\ Len(docstore) <= retrieved.k =>
              \A i \in 1..Len(docstore) :
                  Count(retrieved.docs, docstore[i]) = Count(docstore, docstore[i])
        /\ Len(docstore) > retrieved.k => Len(retrieved.docs) = retrieved.k

\* C17 witness: a store of three chunks searched with k = 4 gave all three,
\* the page's text first and a support document last.
C17_Witness ==
    /\ stage = "retrieved"
    /\ retrieved.k = DefaultK
    /\ Len(docstore) = 3
    /\ retrieved.source_files = <<"checkout.html", "checkout.html", "specs.md">>
    /\ retrieved.docs[1].type = "html_text"
    /\ docstore[1].source = "specs.md"

====
